---- MODULE Spec2Model ----
(***************************************************************************)
(* Model of jonswapSpec (src/jonswapSpec.cpp): the JONSWAP spectral        *)
(* density, the bin partitioner, the trapezoidal bin integrator and the    *)
(* wavemaker transfer, together with the members they accumulate into.     *)
(*                                                                         *)
(* Frequencies are fixed-point: one tick is 1/30 rad/s.  Every boundary    *)
(* is a multiple of Unit ticks, so that the integrator's step              *)
(* binWidth/nmems and binWidth/(nmems+1) and the midpoints are exact, as   *)
(* they are in real arithmetic.  Densities are scaled by 10^4, transfer    *)
(* ratios by HScale.                                                       *)
(***************************************************************************)
EXTENDS Integers, Sequences, FiniteSets, TLC

(* ---------------- bounds of the model ---------------- *)
MaxN == 4          \* bin(n) is called with n in 2..MaxN
MaxMems == 2       \* calcBinAmps(nmems) is called with nmems in 1..MaxMems
MaxCalls == 3      \* number of member calls on one instance
MaxLen == 2        \* length of the vector handed to getamp(vector<double>)

(* ---------------- the instance's parameters ---------------- *)
Unit == 12         \* grid of the boundary candidates, in ticks
wp == 24           \* 0.8 rad/s
wmax == 120        \* 4.0 rad/s
HScale == 1000     \* fixed-point scale of HoS
NaN == -1          \* getamp(0): pow(0,-5) * exp(-inf) is inf * 0
Crash == -2        \* marks a call that did not return

(* getamp(w) of src/jonswapSpec.cpp:72-88 for alpha = 0.0081, wp = 0.8,    *)
(* gamma = 3.3, s1 = 0.07, s2 = 0.09, g = 9.81, tabulated at w = t/30      *)
(* rad/s for t = 1..180 and scaled by 10^4 (pow and exp have no integer    *)
(* counterpart; the table is the function's graph on the grid).            *)
AmpTable ==
  << 0, 0, 0, 0, 0, 0, 0, 0, 0, 0, 0, 0, 0, 11, 96, 415, 1135, 2264, 3657,
     5273, 7630, 12092, 19286, 23645, 20460, 14519, 9838, 7140, 5709, 4890,
     4326, 3867, 3461, 3095, 2766, 2472, 2209, 1975, 1768, 1583, 1420, 1275,
     1147, 1033, 932, 841, 761, 690, 626, 569, 518, 472, 431, 394, 360, 330,
     303, 279, 256, 236, 218, 201, 186, 172, 160, 148, 138, 128, 119, 111,
     103, 96, 90, 84, 79, 74, 69, 65, 61, 57, 54, 51, 48, 45, 42, 40, 38, 36,
     34, 32, 30, 29, 27, 26, 24, 23, 22, 21, 20, 19, 18, 17, 16, 16, 15, 14,
     13, 13, 12, 12, 11, 11, 10, 10, 9, 9, 9, 8, 8, 8, 7, 7, 7, 6, 6, 6, 6,
     6, 5, 5, 5, 5, 5, 4, 4, 4, 4, 4, 4, 4, 3, 3, 3, 3, 3, 3, 3, 3, 3, 2, 2,
     2, 2, 2, 2, 2, 2, 2, 2, 2, 2, 2, 2, 2, 2, 2, 1, 1, 1, 1, 1, 1, 1, 1, 1,
     1, 1, 1, 1, 1 >>

getamp(w) ==
  IF w = 0 THEN NaN
  ELSE IF w \in 1..Len(AmpTable) THEN AmpTable[w]
  ELSE 0

(* The flap-wavemaker ratio HoS of src/jonswapSpec.cpp:272-283 (piston is  *)
(* the constant false), tabulated at wc = 6, 12, .., 114 ticks for the     *)
(* depths h = 0.75 m (index 1) and h = 1.5 m (index 2), scaled by HScale.  *)
HoSTable ==
  << << 28, 55, 83, 112, 140, 170, 200, 231, 263, 296, 331, 368, 407, 448,
        491, 537, 585, 636, 690 >>,
     << 39, 79, 118, 159, 202, 246, 293, 343, 396, 454, 516, 584, 657, 734,
        816, 900, 984, 1067, 1146 >> >>

Depths == 1..2

HoSOf(w, h) == HoSTable[h][w \div 6]

(* sqrt on the fixed-point values: the largest r with r*r <= x *)
RECURSIVE SqrtSearch(_, _, _)
SqrtSearch(x, lo, hi) ==
  IF lo >= hi THEN lo
  ELSE LET mid == (lo + hi + 1) \div 2
       IN IF mid * mid <= x THEN SqrtSearch(x, mid, hi)
          ELSE SqrtSearch(x, lo, mid - 1)

ISqrt(x) == SqrtSearch(x, 0, 40000)

(* ---------------- std::set<double> in iteration order ---------------- *)
MinOf(S) == CHOOSE x \in S : \A y \in S : x <= y

RECURSIVE SortedSeq(_)
SortedSeq(S) ==
  IF S = {} THEN <<>>
  ELSE LET m == MinOf(S) IN <<m>> \o SortedSeq(S \ {m})

VARIABLES
  useCpp11,    \* the build's USE_CPP11
  bounds,      \* set<double> bounds
  wc,          \* vector<double> wc
  amps,        \* vector<double> amps
  paddleAmps,  \* vector<double> paddleAmps
  pc,          \* "idle", "sampling" (inside bin's while loop), "crashed"
  binN,        \* the argument n of the running or last bin(n)
  bound,       \* bin's local double bound: the last candidate drawn
  hist,        \* the member calls that returned, in order
  lastArg,     \* the argument of the last calcBinAmps / calcPaddleAmps
  slices,      \* the trapezoids <<bin, left, right>> of the last calcBinAmps
  emptyDeref,  \* a stage dereferenced begin() of an empty container
  boundsItEnd, \* position of calcPaddleAmps' bounds_it when it returned
  wIn,         \* the vector handed to the last getamp(vector)
  dist         \* the vector it returned

vars == << useCpp11, bounds, wc, amps, paddleAmps, pc, binN, bound, hist,
           lastArg, slices, emptyDeref, boundsItEnd, wIn, dist >>

Init ==
  /\ useCpp11 \in BOOLEAN
  /\ bounds = {}
  /\ wc = <<>>
  /\ amps = <<>>
  /\ paddleAmps = <<>>
  /\ pc = "idle"
  /\ binN = 0
  /\ bound = 0
  /\ hist = <<>>
  /\ lastArg = [calcBinAmps |-> 0, calcPaddleAmps |-> 0]
  /\ slices = {}
  /\ emptyDeref = FALSE
  /\ boundsItEnd = 0
  /\ wIn = <<>>
  /\ dist = <<>>

CanCall == pc = "idle" /\ Len(hist) < MaxCalls

(* ---------------- jonswapSpec::bin ---------------- *)
(* values distribution(gen) is drawn from: grid points inside (0, wmax)    *)
(* and the rejected ones at and beyond both ends                           *)
Candidates == {0 - Unit, 0, 12, 24, 36, 60, 84, 108, wmax, wmax + Unit}

(* lines 146-164: the centres pushed for the boundary set B *)
Centers(B) ==
  LET s == SortedSeq(B)
      k == Len(s)
  IN (IF k >= 2 THEN << s[1] \div 2 >> ELSE <<>>)
       \o [i \in 1..(k - 1) |-> (s[i] + s[i + 1]) \div 2]
       \o << (s[k] + wmax) \div 2 >>

BinTail(B) ==
  /\ wc' = wc \o Centers(B)
  /\ pc' = "idle"
  /\ hist' = Append(hist, "bin")

(* lines 106-113: entry of the USE_CPP11 branch *)
BinBegin(n) ==
  /\ CanCall
  /\ useCpp11
  /\ binN' = n
  /\ pc' = "sampling"
  /\ UNCHANGED << useCpp11, bounds, wc, amps, paddleAmps, bound, hist,
                  lastArg, slices, emptyDeref, boundsItEnd, wIn, dist >>

(* lines 113-119: one iteration of the while loop *)
BinDraw(c) ==
  /\ pc = "sampling"
  /\ Cardinality(bounds) < binN - 1
  /\ bound' = c
  /\ bounds' = IF c > 0 /\ c < wmax THEN bounds \cup {c} ELSE bounds
  /\ UNCHANGED << useCpp11, wc, amps, paddleAmps, pc, binN, hist, lastArg,
                  slices, emptyDeref, boundsItEnd, wIn, dist >>

(* lines 113, 138-164: the loop exits and the centres are pushed *)
BinFinish ==
  /\ pc = "sampling"
  /\ ~(Cardinality(bounds) < binN - 1)
  /\ BinTail(bounds)
  /\ UNCHANGED << useCpp11, bounds, amps, paddleAmps, binN, bound, lastArg,
                  slices, emptyDeref, boundsItEnd, wIn, dist >>

(* line 132: the values bound can take for index i, rand()/RAND_MAX in     *)
(* [0,1], range = 0.4*wmax/n, offset = -wmax/(2n); compared after          *)
(* multiplying through by 10n                                              *)
Grid == { Unit * j : j \in 0..(wmax \div Unit) }

UniformChoices(n, i) ==
  { b \in Grid :
      /\ 10 * n * b >= 10 * i * wmax - 5 * wmax
      /\ 10 * n * b <= 10 * i * wmax - 5 * wmax + 4 * wmax }

(* lines 131-135: the values bound takes in passes 1..i of the for loop *)
RECURSIVE UniformDraws(_, _)
UniformDraws(n, i) ==
  IF i = 0 THEN { <<>> }
  ELSE { Append(f, b) : f \in UniformDraws(n, i - 1),
                        b \in UniformChoices(n, i) }

(* lines 124-164: the #else branch, whole call *)
BinUniform(n) ==
  /\ CanCall
  /\ ~useCpp11
  /\ \E f \in UniformDraws(n, n - 1) :
       /\ bounds' = bounds \cup { f[i] : i \in 1..(n - 1) }
       /\ bound' = f[n - 1]
  /\ binN' = n
  /\ BinTail(bounds')
  /\ UNCHANGED << useCpp11, amps, paddleAmps, lastArg, slices, emptyDeref,
                  boundsItEnd, wIn, dist >>

(* ---------------- jonswapSpec::calcBinAmps ---------------- *)
(* what a read through an invalid iterator can yield *)
Garbage == {0, 24}

(* lines 205 and 232: the values i takes in for (i = startx;               *)
(* i < startx+binWidth; i += dx), lim being startx+binWidth                *)
RECURSIVE Lefts(_, _, _)
Lefts(i, lim, dx) ==
  IF i < lim THEN <<i>> \o Lefts(i + dx, lim, dx) ELSE <<>>

(* lines 206-209 and 233-236: slice_area *)
SliceArea(i, dx) == (dx * (getamp(i) + getamp(i + dx))) \div 2

RECURSIVE SumSlices(_, _)
SumSlices(ls, dx) ==
  IF ls = <<>> THEN 0 ELSE SliceArea(Head(ls), dx) + SumSlices(Tail(ls), dx)

(* lines 199-201 *)
FirstDx(binWidth, nmems) == binWidth \div (nmems + 1)

FirstLefts(binWidth, nmems) ==
  LET dx == FirstDx(binWidth, nmems)
  IN Lefts(dx, dx + binWidth, dx)

(* lines 199-213: the entry pushed for the bin [0, b_1) *)
FirstBinEntry(binWidth, nmems) ==
  SumSlices(FirstLefts(binWidth, nmems), FirstDx(binWidth, nmems))

(* lines 220-228: startx and binWidth of the j-th pass over bounds *)
BinStart(s, j) == s[j]

BinWidthAt(s, j) == (IF j = Len(s) THEN wmax ELSE s[j + 1]) - s[j]

BinDx(s, j, nmems) == BinWidthAt(s, j) \div nmems

BinLefts(s, j, nmems) ==
  Lefts(BinStart(s, j), BinStart(s, j) + BinWidthAt(s, j), BinDx(s, j, nmems))

(* lines 232-239: binArea of the j-th pass, and the entry pushed for it *)
BinArea(s, j, nmems) == SumSlices(BinLefts(s, j, nmems), BinDx(s, j, nmems))

BinEntry(s, j, nmems) == BinArea(s, j, nmems) \div BinWidthAt(s, j)

BinAmps_NoFirst(s, firstWidth, nmems) ==
  [j \in 1..Len(s) |-> BinEntry(s, j, nmems)]

(* lines 199-242: everything one call pushes onto amps; firstWidth is      *)
(* *bounds.begin()                                                         *)
BinAmps(s, firstWidth, nmems) ==
  << FirstBinEntry(firstWidth, nmems) >>
    \o [j \in 1..Len(s) |-> BinEntry(s, j, nmems)]

(* the trapezoids <<bin, left, right>> the call evaluates getamp on *)
SlicesOf(s, firstWidth, nmems) ==
  LET fl == FirstLefts(firstWidth, nmems)
  IN { <<0, fl[x], fl[x] + FirstDx(firstWidth, nmems)>> : x \in 1..Len(fl) }
       \cup UNION { { <<j, BinLefts(s, j, nmems)[x],
                        BinLefts(s, j, nmems)[x] + BinDx(s, j, nmems)>> :
                        x \in 1..Len(BinLefts(s, j, nmems)) } :
                    j \in 1..Len(s) }

(* lines 188-245; on an empty bounds line 199 reads *end(): the call       *)
(* either faults or goes on with an indeterminate binWidth                 *)
calcBinAmps(nmems) ==
  /\ CanCall
  /\ LET s == SortedSeq(bounds)
     IN \E fw \in (IF bounds = {} THEN Garbage \cup {Crash} ELSE {s[1]}) :
          /\ emptyDeref' = (emptyDeref \/ bounds = {})
          /\ IF fw = Crash
             THEN /\ pc' = "crashed"
                  /\ UNCHANGED << amps, hist, lastArg, slices >>
             ELSE /\ amps' = amps \o BinAmps(s, fw, nmems)
                  /\ slices' = SlicesOf(s, fw, nmems)
                  /\ hist' = Append(hist, "calcBinAmps")
                  /\ lastArg' = [lastArg EXCEPT !.calcBinAmps = nmems]
                  /\ pc' = pc
  /\ UNCHANGED << useCpp11, bounds, wc, paddleAmps, binN, bound,
                  boundsItEnd, wIn, dist >>

(* ---------------- jonswapSpec::calcPaddleAmps ---------------- *)
(* lines 272-286: the value pushed for one bin *)
PaddleAmp(amp, binWidth, w, h) ==
  LET HoS == HoSOf(w, h)
      tempAmp0 == ISqrt(amp * binWidth * 2)
      tempAmp == (tempAmp0 * HScale) \div HoS
  IN (tempAmp * HScale) \div HoS

(* lines 260-270: where bounds_it stands after pass i of n: only the       *)
(* branch of an interior bin advances it                                   *)
PaddleNextIt_Always(i, n, b) == b + 1

PaddleNextIt(i, n, b) == IF i # n /\ i # 1 THEN b + 1 ELSE b

(* lines 259-290: the passes i..wc.size() of the loop, bounds_it being at  *)
(* position b of s (Len(s)+1 is end()); g stands for a value computed from *)
(* a read through an invalid iterator                                      *)
RECURSIVE PaddleWalk(_, _, _, _, _)
PaddleWalk(i, b, s, h, g) ==
  IF i > Len(wc) THEN [out |-> <<>>, it |-> b, bad |-> FALSE]
  ELSE
    LET last == (i = Len(wc))
        first == (i = 1)
        interior == ~last /\ ~first
        okB == IF interior THEN b + 1 <= Len(s) ELSE b <= Len(s)
        okA == i <= Len(amps)
        binWidth == IF last THEN wmax - s[b]
                    ELSE IF first THEN s[b]
                    ELSE s[b + 1] - s[b]
        v == IF okB /\ okA THEN PaddleAmp(amps[i], binWidth, wc[i], h) ELSE g
        b2 == PaddleNextIt(i, Len(wc), b)
        rest == PaddleWalk(i + 1, IF b2 > Len(s) + 1 THEN Len(s) + 1 ELSE b2,
                           s, h, g)
    IN [out |-> <<v>> \o rest.out,
        it |-> IF b2 > Len(s) + 1 THEN b2 ELSE rest.it,
        bad |-> (~okB \/ ~okA \/ rest.bad)]

(* lines 250-292 *)
calcPaddleAmps(h) ==
  /\ CanCall
  /\ LET s == SortedSeq(bounds)
         probe == PaddleWalk(1, 1, s, h, 0)
     IN \E g \in (IF probe.bad THEN Garbage \cup {Crash} ELSE {0}) :
          /\ emptyDeref' = (emptyDeref \/
                            (wc # <<>> /\ (amps = <<>> \/ bounds = {})))
          /\ IF g = Crash
             THEN /\ pc' = "crashed"
                  /\ UNCHANGED << paddleAmps, hist, lastArg, boundsItEnd >>
             ELSE /\ paddleAmps' = paddleAmps \o PaddleWalk(1, 1, s, h, g).out
                  /\ boundsItEnd' = probe.it
                  /\ hist' = Append(hist, "calcPaddleAmps")
                  /\ lastArg' = [lastArg EXCEPT !.calcPaddleAmps = h]
                  /\ pc' = pc
  /\ UNCHANGED << useCpp11, bounds, wc, amps, binN, bound, slices, wIn,
                  dist >>

(* ---------------- jonswapSpec::getamp(vector<double>) ---------------- *)
Freqs == {0, 6, 12, 18, 24, 30, 36}

Sweeps == UNION { [1..l -> Freqs] : l \in 0..MaxLen }

(* lines 96-99: the loop starts at w.begin()+1 *)
getampVec(w) == [i \in 1..(Len(w) - 1) |-> getamp(w[i + 1])]

(* lines 91-101, called on the vector wIn; w.begin()+1 of an empty vector  *)
(* is past end(), the loop then reads what lies there until it faults or   *)
(* meets end()                                                             *)
getampCall ==
  /\ CanCall
  /\ hist = <<>>
  /\ \E r \in (IF wIn = <<>> THEN { <<g>> : g \in Garbage \cup {Crash} }
               ELSE { getampVec(wIn) }) :
       IF r = << Crash >>
       THEN /\ pc' = "crashed"
            /\ UNCHANGED << dist, hist >>
       ELSE /\ dist' = r
            /\ hist' = Append(hist, "getamp")
            /\ pc' = pc
  /\ UNCHANGED << useCpp11, bounds, wc, amps, paddleAmps, binN, bound,
                  lastArg, slices, emptyDeref, boundsItEnd, wIn >>

Next ==
  \/ \E n \in 2..MaxN : BinBegin(n)
  \/ \E c \in Candidates : BinDraw(c)
  \/ BinFinish
  \/ \E n \in 2..MaxN : BinUniform(n)
  \/ \E nmems \in 1..MaxMems : calcBinAmps(nmems)
  \/ \E h \in Depths : calcPaddleAmps(h)

Spec == Init /\ [][Next]_vars

(* getamp(vector) is a function of the instance's parameters and of its   *)
(* argument only: it is applied once to each vector of Sweeps              *)
InitDensity ==
  /\ useCpp11 \in BOOLEAN
  /\ bounds = {}
  /\ wc = <<>>
  /\ amps = <<>>
  /\ paddleAmps = <<>>
  /\ pc = "idle"
  /\ binN = 0
  /\ bound = 0
  /\ hist = <<>>
  /\ lastArg = [calcBinAmps |-> 0, calcPaddleAmps |-> 0]
  /\ slices = {}
  /\ emptyDeref = FALSE
  /\ boundsItEnd = 0
  /\ wIn \in Sweeps
  /\ dist = <<>>

NextDensity == getampCall

SpecDensity == InitDensity /\ [][NextDensity]_vars

(* bin's while loop is a running computation: an iteration that can be     *)
(* taken is taken, and so is the exit                                      *)
FairSpec ==
  /\ Init
  /\ [][Next]_vars
  /\ WF_vars(\E c \in Candidates : BinDraw(c))
  /\ WF_vars(BinFinish)

(* ======================= properties ======================= *)
(* the edges 0, b_1, .., b_{n-1}, wmax of the current partition *)
Edges == <<0>> \o SortedSeq(bounds) \o <<wmax>>

WidthOfBin(i) == Edges[i + 1] - Edges[i]

(* the calls made so far, none of them still running *)
OnlyBin == pc = "idle" /\ hist = << "bin" >>

BinThenCalc == pc = "idle" /\ hist = << "bin", "calcBinAmps" >>

Pipeline == pc = "idle" /\ hist = << "bin", "calcBinAmps", "calcPaddleAmps" >>

(* C1: one bin(n), n >= 2, on a fresh instance leaves exactly n-1          *)
(* boundaries, all strictly inside (0, wmax), and exactly n centres.       *)
C1_PartitionCounts ==
  OnlyBin =>
    /\ Cardinality(bounds) = binN - 1
    /\ \A b \in bounds : 0 < b /\ b < wmax
    /\ Len(wc) = binN

(* C2: the vector form of getamp returns as many densities as it was given *)
(* frequencies, the i-th being the density of the i-th frequency (stated   *)
(* for the non-empty inputs, on which the call's behaviour is defined).    *)
C2_ElementwiseDensity ==
  (hist # <<>> /\ hist[Len(hist)] = "getamp" /\ wIn # <<>>) =>
    /\ Len(dist) = Len(wIn)
    /\ \A i \in 1..Len(wIn) : dist[i] = getamp(wIn[i])

(* C3: every stored paddle amplitude is sqrt(2*energy_i*width_i) divided   *)
(* by HoS exactly once.                                                    *)
C3_DividedOnce ==
  (Pipeline /\ binN >= 3) =>
    \A i \in 1..Len(paddleAmps) :
      paddleAmps[i] =
        (ISqrt(2 * amps[i] * WidthOfBin(i)) * HScale)
          \div HoSOf(wc[i], lastArg.calcPaddleAmps)

C5_CentersAreMidpoints ==
  OnlyBin =>
    \A i \in 1..binN :
      /\ i <= Len(wc)
      /\ 2 * wc[i] = Edges[i] + Edges[i + 1]

(* C6: every entry of the integrator's vector, the first bin's included,   *)
(* is that bin's integrated energy divided by that bin's width.            *)
C6_SameOutputMode ==
  BinThenCalc =>
    LET s == SortedSeq(bounds)
        nmems == lastArg.calcBinAmps
    IN /\ amps[1] = FirstBinEntry(s[1], nmems) \div WidthOfBin(1)
       /\ \A j \in 1..Len(s) :
            amps[j + 1] = BinArea(s, j, nmems) \div WidthOfBin(j + 1)

(* C7: no stage dereferences a container its producing stage has not yet   *)
(* filled.                                                                 *)
C7_NoEmptyDeref == ~emptyDeref

(* C8: bin's sampling loop always comes to an end, by success or by a      *)
(* failure, whatever candidates are drawn.                                 *)
C8_SamplingTerminates == (pc = "sampling") ~> (pc # "sampling")

(* C9: every trapezoid the integrator sums lies inside its bin: its left   *)
(* edge is not below the bin's lower edge (and is positive), its right     *)
(* edge not above the bin's upper edge.                                    *)
C9_SlicesInsideBin ==
  BinThenCalc =>
    \A t \in slices :
      /\ t[2] >= Edges[t[1] + 1]
      /\ t[2] > 0
      /\ t[3] <= Edges[t[1] + 2]

(* C10: after one bin(n), n >= 3, and one calcBinAmps on a fresh instance, *)
(* calcPaddleAmps returns n entries, the i-th computed from the i-th       *)
(* centre, the i-th integrator entry and the width of bin i, and its       *)
(* boundary iterator ends no further than the last boundary.               *)
C10_PaddleLockstep ==
  (Pipeline /\ binN >= 3) =>
    /\ Len(paddleAmps) = binN
    /\ boundsItEnd <= Cardinality(bounds)
    /\ \A i \in 1..binN :
         paddleAmps[i] =
           PaddleAmp(amps[i], WidthOfBin(i), wc[i], lastArg.calcPaddleAmps)

C10_Witness ==
  /\ Pipeline
  /\ binN >= 3
  /\ Len(paddleAmps) = binN
  /\ boundsItEnd = Cardinality(bounds)
  /\ \E i \in 2..(binN - 1) : paddleAmps[i] > 0
====
